---- MODULE Spec2Model ----
(***************************************************************************)
(* Focus-aware text delivery: SystemHandler of src/system_handler.py.      *)
(* Two threads share one SystemHandler object: the caller thread (the      *)
(* ASR / translation pipeline calling paste_text, set_pending_paste, ...)  *)
(* and the tracker thread running _track_focus_loop.  Every read or write  *)
(* of an attribute of the shared object is a step of its own, so the two   *)
(* threads interleave the way Python threads interleave between            *)
(* statements.  The OS (foreground window, window table, clipboard,        *)
(* accessibility tree) is the environment: it moves on its own between     *)
(* any two steps, and each of its calls may raise.                         *)
(***************************************************************************)
EXTENDS Integers, Sequences, FiniteSets, TLC

\* ---------------------------------------------------------------- bounds
\* Top-level windows of the application itself: handles 1..MaxOwn.
MaxOwn == 1
\* Windows of other applications: handles MaxOwn+1..MaxOwn+MaxForeign.
MaxForeign == 1
\* Distinct non-empty texts.
MaxText == 2
\* Longest text read back from the character after the caret.
MaxPeek == 2

\* Python None for a window handle; GetForegroundWindow's NULL is the same 0.
NoHwnd == 0
\* Python None for a text or a callback.
None == "None"

AllTexts == <<"a", "b", "c", "d">>
\* The non-empty texts handed to the handler.
TextSet == {AllTexts[i] : i \in 1..MaxText}
\* Window handles the OS may report.  The application's own windows stay
\* open and visible for the life of the process and are the handles the
\* windowing layer registers; the windows of other applications may be
\* hidden, shown and closed at any time.
OwnHandles == 1..MaxOwn
ForeignHandles == (MaxOwn + 1)..(MaxOwn + MaxForeign)
Handles == OwnHandles \cup ForeignHandles

VARIABLES
    \* ---- SystemHandler.__init__
    last_active_window,       \* self._last_active_window
    my_window_hwnds,          \* self._my_window_hwnds
    tracking_started,         \* self._tracking_started
    stop_event,               \* self._stop_event
    pending_paste_text,       \* self._pending_paste_text
    pending_paste_callback,   \* self._pending_paste_callback
    \* ---- the tracker thread (self._monitor_thread)
    t_pc,                     \* position in _track_focus_loop, "dead" = no thread
    t_hwnd,                   \* local hwnd
    t_text,                   \* local text
    t_keys,                   \* keys the running poll iteration has injected so far
    t_cb,                     \* the callback line 198 has invoked in the running poll iteration
    t_alive,                  \* number of live threads running _track_focus_loop
    \* ---- the caller thread
    c_pc,                     \* position in the running call, "idle" = none
    c_text,                   \* argument text
    c_send,                   \* argument should_send
    c_cb,                     \* argument callback
    c_keys,                   \* keys the running call has injected so far
    c_overwrote,              \* history: the running call replaced a queued, different text
    \* ---- the OS
    fg,                       \* win32gui.GetForegroundWindow()
    win,                      \* window table: handle -> "visible" | "hidden" | "closed"
    clipboard,                \* the system clipboard
    \* ---- the caret probe (is_likely_insertion), one call
    probe,                    \* what the accessibility tree answers
    probe_result,             \* "none" before the call, then what the call gave
    \* ---- history (written by no code, read by no code)
    last_set,                 \* text of the latest set_pending_paste, None once the slot is emptied
    t_late_reg                \* t_hwnd was registered after the running poll iteration began

handlerVars == << last_active_window, my_window_hwnds, tracking_started, stop_event,
                  pending_paste_text, pending_paste_callback >>
trackerVars == << t_pc, t_hwnd, t_text, t_keys, t_cb, t_alive >>
callerVars == << c_pc, c_text, c_send, c_cb, c_keys, c_overwrote >>
osVars == << fg, win, clipboard >>
probeVars == << probe, probe_result >>
slotHistory == << last_set >>
pollHistory == << t_late_reg >>

vars == << handlerVars, trackerVars, callerVars, osVars, probeVars, slotHistory, pollHistory >>

\* ---------------------------------------------------------------- OS queries
\* win32gui.IsWindow(h)
IsWindow(h) == h \in Handles /\ win[h] # "closed"
\* win32gui.IsWindowVisible(h)
IsWindowVisible(h) == h \in Handles /\ win[h] = "visible"
\* A test that only tells None from a text, and takes "" for a text.
NotNone(t) == t # None

\* Python truthiness of a text
Truthy(t) == t # None /\ t # ""

\* ---------------------------------------------------------------- queries
get_last_active_window == last_active_window

\* A has_target_window that trusts the recorded handle without asking the OS.
has_target_window_unchecked == last_active_window # NoHwnd

\* lines 209-211
has_target_window ==
    last_active_window # NoHwnd /\ IsWindow(last_active_window)

\* ---------------------------------------------------------------- the caret probe
\* The accessibility calls of _check_caret_at_end_uia, in program order; each
\* may raise (a COM error, a timeout of the 0.2 s search).
ProbeCalls ==
    {"GetFocusedControl", "GetPattern_Text", "GetSelection", "Clone", "Move",
     "ExpandToEnclosingUnit", "GetText", "GetPattern_Value", "Value"}

PeekChars == {"x", " ", "\n"}
Whitespace == {" ", "\n"}
PeekTexts == UNION {[1..n -> PeekChars] : n \in 0..MaxPeek}

\* What the accessibility tree answers to one probe.
ProbeInputs ==
    [focused : BOOLEAN,                  \* GetFocusedControl() gives a control
     raisesAt : ProbeCalls \cup {"never"}, \* the call that raises, if it is reached
     text : BOOLEAN,                     \* the control has the TextPattern
     selections : 0..1,                  \* len(pattern.GetSelection())
     moved : 0..1,                       \* chk_range.Move(Character, 1)
     peek : PeekTexts,                   \* chk_range.GetText() after the expand
     value_pattern : BOOLEAN,            \* the control has the ValuePattern
     value : {"", "v"}]                  \* val_pattern.Value

\* str.isspace(): at least one character and all of them whitespace
isspace(s) == Len(s) > 0 /\ \A i \in 1..Len(s) : s[i] \in Whitespace

\* The try block with the peek decided by emptiness alone, without the
\* isspace() test of line 114.
check_caret_try_no_isspace(u) ==
    IF u.raisesAt = "GetFocusedControl" THEN "raised"
    ELSE IF ~u.focused THEN "None"
    ELSE IF u.raisesAt = "GetPattern_Text" THEN "raised"
    ELSE IF u.text THEN
        IF u.raisesAt = "GetSelection" THEN "raised"
        ELSE IF u.selections = 0 THEN "None"
        ELSE IF u.raisesAt \in {"Clone", "Move"} THEN "raised"
        ELSE IF u.moved = 0 THEN "True"
        ELSE IF u.raisesAt \in {"ExpandToEnclosingUnit", "GetText"} THEN "raised"
        ELSE IF Len(u.peek) = 0 THEN "True"
        ELSE "False"
    ELSE IF u.raisesAt = "GetPattern_Value" THEN "raised"
    ELSE IF u.value_pattern THEN
        IF u.raisesAt = "Value" THEN "raised"
        ELSE IF u.value = "" THEN "True"
        ELSE "None"
    ELSE "None"

\* lines 72-144, the body of the try block: "True" / "False" / "None" as the
\* code returns them, "raised" when a call raises.
check_caret_try(u) ==
    IF u.raisesAt = "GetFocusedControl" THEN "raised"
    ELSE IF ~u.focused THEN "None"
    ELSE IF u.raisesAt = "GetPattern_Text" THEN "raised"
    ELSE IF u.text THEN
        IF u.raisesAt = "GetSelection" THEN "raised"
        ELSE IF u.selections = 0 THEN "None"
        ELSE IF u.raisesAt \in {"Clone", "Move"} THEN "raised"
        ELSE IF u.moved = 0 THEN "True"
        ELSE IF u.raisesAt \in {"ExpandToEnclosingUnit", "GetText"} THEN "raised"
        ELSE IF Len(u.peek) = 0 \/ isspace(u.peek) THEN "True"
        ELSE "False"
    ELSE IF u.raisesAt = "GetPattern_Value" THEN "raised"
    ELSE IF u.value_pattern THEN
        IF u.raisesAt = "Value" THEN "raised"
        ELSE IF u.value = "" THEN "True"
        ELSE "None"
    ELSE "None"

\* The handler of lines 145-150 returning "not at the end" for a failed probe.
check_caret_at_end_uia_failed_is_false(u) ==
    IF check_caret_try(u) = "raised" THEN "False" ELSE check_caret_try(u)

\* lines 63-150: the except handler of lines 145-150 turns any exception into None
check_caret_at_end_uia(u) ==
    IF check_caret_try(u) = "raised" THEN "None" ELSE check_caret_try(u)

\* lines 18-39: not is_at_end when the probe gave a verdict, False otherwise
is_likely_insertion(u) ==
    IF check_caret_at_end_uia(u) = "raised" THEN "False"
    ELSE IF check_caret_at_end_uia(u) # "None"
            THEN (IF check_caret_at_end_uia(u) = "True" THEN "False" ELSE "True")
            ELSE "False"

\* No probe is under way.
NoProbe == << >>

\* ---------------------------------------------------------------- Init
Init ==
    /\ last_active_window = NoHwnd
    /\ my_window_hwnds = {}
    /\ tracking_started = FALSE
    /\ stop_event = FALSE
    /\ pending_paste_text = None
    /\ pending_paste_callback = None
    /\ t_pc = "dead"
    /\ t_hwnd = NoHwnd
    /\ t_text = None
    /\ t_keys = << >>
    /\ t_cb = None
    /\ t_alive = 0
    /\ c_pc = "idle"
    /\ c_text = None
    /\ c_send = FALSE
    /\ c_cb = None
    /\ c_keys = << >>
    /\ c_overwrote = FALSE
    /\ fg = NoHwnd
    /\ win = [h \in Handles |-> "visible"]
    /\ clipboard = ""
    /\ probe = NoProbe
    /\ probe_result = "none"
    /\ last_set = None
    /\ t_late_reg = FALSE

\* ---------------------------------------------------------------- the OS moves
\* The user (or another program) brings a window to the foreground, or
\* leaves no window in the foreground.
OsFocus ==
    /\ \E h \in Handles \cup {NoHwnd} :
          /\ h # fg
          /\ h # NoHwnd => IsWindow(h)
          /\ fg' = h
    /\ UNCHANGED << win, clipboard, handlerVars, trackerVars, callerVars, probeVars,
                    slotHistory, pollHistory >>

\* A window of another application is closed; the foreground is lost with it.
OsClose ==
    /\ \E h \in ForeignHandles :
          /\ win[h] # "closed"
          /\ win' = [win EXCEPT ![h] = "closed"]
          /\ fg' = IF fg = h THEN NoHwnd ELSE fg
    /\ UNCHANGED << clipboard, handlerVars, trackerVars, callerVars, probeVars,
                    slotHistory, pollHistory >>

\* A window of another application is hidden or shown.
OsShowHide ==
    /\ \E h \in ForeignHandles :
          /\ win[h] # "closed"
          /\ win' = [win EXCEPT ![h] = IF win[h] = "visible" THEN "hidden" ELSE "visible"]
    /\ UNCHANGED << fg, clipboard, handlerVars, trackerVars, callerVars, probeVars,
                    slotHistory, pollHistory >>

Os == OsFocus \/ OsClose \/ OsShowHide

\* ---------------------------------------------------------------- shared steps
\* pyperclip.copy(text): the clipboard takes the text, or the call raises and
\* the clipboard keeps what it held.  A text that is None always raises.
ClipboardWrite(text, ok) ==
    IF ok /\ text # None THEN clipboard' = text ELSE clipboard' = clipboard

\* A set_pending_paste that leaves an entry already queued in place.
SetPendingTextIfEmpty(text) ==
    pending_paste_text' = IF Truthy(pending_paste_text) THEN pending_paste_text ELSE text

\* line 225: self._pending_paste_text = text
SetPendingText(text) == pending_paste_text' = text

\* line 226: self._pending_paste_callback = callback
SetPendingCallback(cb) == pending_paste_callback' = cb

\* The history of one write of the slot's text.
NoteSet(text) ==
    /\ last_set' = text
    /\ c_overwrote' = (Truthy(last_set) /\ last_set # text)

\* ---------------------------------------------------------------- tracker thread
\* A tracker that records whatever window is in the foreground.
ShouldTrackAnyWindow(hwnd) == hwnd # NoHwnd

\* line 186: if hwnd and hwnd not in self._my_window_hwnds
ShouldTrack(hwnd) == hwnd # NoHwnd /\ hwnd \notin my_window_hwnds

\* A loop that never looks at the stop flag.
StopNeverSeen == FALSE

\* line 183: self._stop_event.is_set()
StopRequested == stop_event

\* The thread function returns: the while test of line 183 failed, or an
\* exception left the loop, which has no handler around lines 184-191.
ThreadEnds ==
    /\ t_pc' = "dead"
    /\ t_hwnd' = NoHwnd
    /\ t_text' = None
    /\ t_alive' = t_alive - 1

\* lines 183-186: while not self._stop_event.is_set();
\* hwnd = GetForegroundWindow(); if hwnd and hwnd not in self._my_window_hwnds.
\* One poll iteration starts here.  GetForegroundWindow may raise.
T_poll ==
    /\ t_pc = "poll"
    /\ \E raised \in BOOLEAN :
          IF StopRequested
             THEN ~raised /\ ThreadEnds
             ELSE IF raised
                     THEN ThreadEnds
                     ELSE /\ IF ShouldTrack(fg)
                                THEN t_hwnd' = fg /\ t_pc' = "chk"
                                ELSE t_hwnd' = NoHwnd /\ t_pc' = "poll"
                          /\ UNCHANGED << t_text, t_alive >>
    /\ UNCHANGED << t_keys, t_cb, handlerVars, callerVars, osVars, probeVars,
                    slotHistory, pollHistory >>

\* line 188: if self._pending_paste_text
T_check ==
    /\ t_pc = "chk"
    /\ t_pc' = IF Truthy(pending_paste_text) THEN "rd" ELSE "rec"
    /\ UNCHANGED << t_hwnd, t_text, t_keys, t_cb, t_alive, handlerVars, callerVars, osVars, probeVars,
                    slotHistory, pollHistory >>

\* line 189: text = self._pending_paste_text
T_read ==
    /\ t_pc = "rd"
    /\ t_text' = pending_paste_text
    /\ t_pc' = "vis"
    /\ UNCHANGED << t_hwnd, t_keys, t_cb, t_alive, handlerVars, callerVars, osVars, probeVars,
                    slotHistory, pollHistory >>

\* line 191: if win32gui.IsWindowVisible(hwnd); the call may raise
T_visible ==
    /\ t_pc = "vis"
    /\ \E raised \in BOOLEAN :
          IF raised
             THEN ThreadEnds /\ t_late_reg' = FALSE
             ELSE /\ IF IsWindowVisible(t_hwnd)
                        THEN t_pc' = "clr" /\ t_text' = t_text
                        ELSE t_pc' = "rec" /\ t_text' = None
                  /\ UNCHANGED << t_hwnd, t_alive, pollHistory >>
    /\ UNCHANGED << t_keys, t_cb, handlerVars, callerVars, osVars, probeVars,
                    slotHistory >>

\* A tracker that pastes the queued text and leaves it in the slot.
KeepPending == pending_paste_text' = pending_paste_text

\* line 193: self._pending_paste_text = None
TakePending == pending_paste_text' = None

\* line 193, then the sleep of line 194
T_clear ==
    /\ t_pc = "clr"
    /\ TakePending
    /\ t_pc' = "copy"
    /\ last_set' = None
    /\ UNCHANGED << t_hwnd, t_text, t_keys, t_cb, t_alive, last_active_window, my_window_hwnds,
                    tracking_started, stop_event, pending_paste_callback,
                    callerVars, osVars, probeVars, pollHistory >>

\* A _do_paste without the handler of lines 259-260: a failed clipboard
\* write ends the thread.
T_copy_unguarded ==
    /\ t_pc = "copy"
    /\ \E ok \in BOOLEAN :
          /\ ClipboardWrite(t_text, ok)
          /\ IF ok /\ t_text # None
                THEN t_pc' = "chord" /\ UNCHANGED << t_hwnd, t_text, t_alive >>
                ELSE ThreadEnds
    /\ UNCHANGED << t_keys, t_cb, fg, win, handlerVars, callerVars, probeVars,
                    slotHistory, pollHistory >>

\* line 195 -> _do_paste line 248: pyperclip.copy(text); an exception is
\* swallowed at line 259 and ends _do_paste.
T_copy ==
    /\ t_pc = "copy"
    /\ \E ok \in BOOLEAN :
          /\ ClipboardWrite(t_text, ok)
          /\ t_pc' = IF ok /\ t_text # None THEN "chord" ELSE "cbchk"
    /\ UNCHANGED << t_hwnd, t_text, t_keys, t_cb, t_alive, fg, win, handlerVars, callerVars, probeVars,
                    slotHistory, pollHistory >>

\* A tracker that presses Enter after every automatic paste.
AutoShouldSendAlways == TRUE

\* line 195: self._do_paste(text, should_send=False)
AutoShouldSend == FALSE

\* _do_paste lines 250-258: the key sequences the call can leave behind.
\* Ctrl+V, then Enter when should_send; an exception from the keyboard
\* controller, swallowed at line 259, ends the sequence where it is raised.
DoPasteKeys(keys, should_send) ==
    {keys, Append(keys, "paste")}
        \cup (IF should_send THEN {Append(Append(keys, "paste"), "enter")} ELSE {})

\* line 195 -> _do_paste lines 250-258
T_chord ==
    /\ t_pc = "chord"
    /\ t_keys' \in DoPasteKeys(t_keys, AutoShouldSend)
    /\ t_pc' = "cbchk"
    /\ UNCHANGED << t_hwnd, t_text, t_cb, t_alive, handlerVars, callerVars, osVars, probeVars,
                    slotHistory, pollHistory >>

\* line 196: if self._pending_paste_callback
T_cbcheck ==
    /\ t_pc = "cbchk"
    /\ t_pc' = IF pending_paste_callback # None THEN "cbcall" ELSE "rec"
    /\ UNCHANGED << t_hwnd, t_text, t_keys, t_cb, t_alive, handlerVars, callerVars, osVars, probeVars,
                    slotHistory, pollHistory >>

\* A tracker that calls the callback queued together with the text it took.
InvokedCallbackOfTakenText == t_text

\* line 198: the callable the tracker calls is whatever the attribute holds
\* at that moment; calling None raises a TypeError that line 199 swallows.
InvokedCallback == pending_paste_callback

\* lines 197-200: self._pending_paste_callback() inside try/except
T_cbcall ==
    /\ t_pc = "cbcall"
    /\ t_cb' = InvokedCallback
    /\ t_pc' = "cbclr"
    /\ UNCHANGED << t_hwnd, t_text, t_keys, t_alive, handlerVars, callerVars, osVars, probeVars,
                    slotHistory, pollHistory >>

\* line 201: self._pending_paste_callback = None
T_cbclear ==
    /\ t_pc = "cbclr"
    /\ pending_paste_callback' = None
    /\ t_pc' = "rec"
    /\ UNCHANGED << t_hwnd, t_text, t_keys, t_cb, t_alive, last_active_window, my_window_hwnds,
                    tracking_started, stop_event, pending_paste_text, callerVars, osVars,
                    probeVars, slotHistory, pollHistory >>

\* lines 203-204: self._last_active_window = hwnd; sleep
T_record ==
    /\ t_pc = "rec"
    /\ last_active_window' = t_hwnd
    /\ t_pc' = "poll"
    /\ t_hwnd' = NoHwnd
    /\ t_text' = None
    /\ t_keys' = << >>
    /\ t_cb' = None
    /\ t_late_reg' = FALSE
    /\ UNCHANGED << t_alive, my_window_hwnds, tracking_started, stop_event,
                    pending_paste_text, pending_paste_callback, callerVars, osVars,
                    probeVars, slotHistory >>

Tracker ==
    \/ T_poll \/ T_check \/ T_read \/ T_visible \/ T_clear
    \/ T_copy \/ T_chord \/ T_cbcheck \/ T_cbcall \/ T_cbclear \/ T_record

\* ---------------------------------------------------------------- caller thread
\* What the accessibility tree may show as the focused control: none at all
\* (or a query that raises or times out), or a control with or without the
\* TextPattern / ValuePattern and with some ControlTypeName.
Controls ==
    [focused : BOOLEAN, raises : BOOLEAN, text : BOOLEAN, value : BOOLEAN,
     type : {"EditControl", "DocumentControl", "PaneControl"}]

\* lines 43-61
is_text_input_focused(ctl) ==
    IF ctl.raises THEN FALSE
    ELSE IF ~ctl.focused THEN FALSE
    ELSE IF ctl.text THEN TRUE
    ELSE IF ctl.value THEN TRUE
    ELSE IF ctl.type = "EditControl" \/ ctl.type = "DocumentControl" THEN TRUE
    ELSE FALSE

\* The call returns to the caller.
Return ==
    /\ c_pc' = "idle"
    /\ c_text' = None
    /\ c_send' = FALSE
    /\ c_cb' = None
    /\ c_keys' = << >>
    /\ c_overwrote' = FALSE

\* A start_focus_tracking without the guard of lines 169-170.
start_focus_tracking_unguarded ==
    /\ c_pc = "idle"
    /\ tracking_started' = TRUE
    /\ stop_event' = FALSE
    /\ t_pc' = "poll"
    /\ t_alive' = t_alive + 1
    /\ UNCHANGED << last_active_window, my_window_hwnds, pending_paste_text,
                    pending_paste_callback, t_hwnd, t_text, t_keys, t_cb, callerVars, osVars,
                    probeVars, slotHistory, pollHistory >>

\* lines 167-174
start_focus_tracking ==
    /\ c_pc = "idle"
    /\ IF tracking_started
          THEN UNCHANGED << tracking_started, stop_event, t_pc, t_alive >>
          ELSE /\ tracking_started' = TRUE
               /\ stop_event' = FALSE
               /\ t_pc' = "poll"
               /\ t_alive' = t_alive + 1
    /\ UNCHANGED << last_active_window, my_window_hwnds, pending_paste_text,
                    pending_paste_callback, t_hwnd, t_text, t_keys, t_cb, callerVars, osVars,
                    probeVars, slotHistory, pollHistory >>

\* line 177: self._stop_event.set()
stop_focus_tracking ==
    /\ c_pc = "idle"
    /\ stop_event' = TRUE
    /\ c_pc' = "x_join"
    /\ UNCHANGED << last_active_window, my_window_hwnds, tracking_started,
                    pending_paste_text, pending_paste_callback,
                    c_text, c_send, c_cb, c_keys, c_overwrote, trackerVars, osVars,
                    probeVars, slotHistory, pollHistory >>

\* A stop_focus_tracking that does not wait for the thread to end.
X_join_no_wait ==
    /\ c_pc = "x_join"
    /\ tracking_started' = FALSE
    /\ Return
    /\ UNCHANGED << last_active_window, my_window_hwnds, stop_event,
                    pending_paste_text, pending_paste_callback, trackerVars, osVars,
                    probeVars, slotHistory, pollHistory >>

\* lines 178-180: join() returns once the thread has ended (at once when there
\* is none); self._tracking_started = False
X_join ==
    /\ c_pc = "x_join"
    /\ t_pc = "dead"
    /\ tracking_started' = FALSE
    /\ Return
    /\ UNCHANGED << last_active_window, my_window_hwnds, stop_event,
                    pending_paste_text, pending_paste_callback, trackerVars, osVars,
                    probeVars, slotHistory, pollHistory >>

\* lines 153-161 (set_my_window_handle, lines 163-165, is the same call)
add_my_window_handle ==
    /\ c_pc = "idle"
    /\ \E hwnd \in OwnHandles \cup {NoHwnd} :
          /\ my_window_hwnds' = IF hwnd # NoHwnd THEN my_window_hwnds \cup {hwnd}
                                                ELSE my_window_hwnds
          /\ t_late_reg' = (t_late_reg \/ (hwnd # NoHwnd /\ hwnd = t_hwnd
                                                          /\ hwnd \notin my_window_hwnds))
    /\ UNCHANGED << last_active_window, tracking_started, stop_event,
                    pending_paste_text, pending_paste_callback,
                    trackerVars, callerVars, osVars, probeVars, slotHistory >>

\* A copy_to_clipboard that also queues the text for the tracker.
copy_to_clipboard_and_queue ==
    /\ c_pc = "idle"
    /\ \E text \in TextSet \cup {""} :
          IF Truthy(text)
             THEN /\ \E ok \in BOOLEAN : ClipboardWrite(text, ok)
                  /\ c_text' = text
                  /\ c_pc' = "cp_done"
                  /\ pending_paste_text' = text
                  /\ last_set' = text
             ELSE /\ c_pc' = "empty"
                  /\ c_text' = text
                  /\ UNCHANGED << clipboard, pending_paste_text, last_set >>
    /\ UNCHANGED << fg, win, last_active_window, my_window_hwnds, tracking_started,
                    stop_event, pending_paste_callback, trackerVars,
                    c_send, c_cb, c_keys, c_overwrote, probeVars, pollHistory >>

\* lines 234-241: an empty text returns at line 236; otherwise pyperclip.copy
\* is called and an exception is swallowed at line 240.
copy_to_clipboard ==
    /\ c_pc = "idle"
    /\ \E text \in TextSet \cup {""} :
          IF Truthy(text)
             THEN /\ \E ok \in BOOLEAN : ClipboardWrite(text, ok)
                  /\ c_text' = text
                  /\ c_pc' = "cp_done"
             ELSE /\ c_pc' = "empty"
                  /\ c_text' = text
                  /\ UNCHANGED clipboard
    /\ UNCHANGED << fg, win, handlerVars, trackerVars,
                    c_send, c_cb, c_keys, c_overwrote, probeVars,
                    slotHistory, pollHistory >>

\* paste_text line 269, copy_to_clipboard line 236: return on an empty text
ReturnEmpty ==
    /\ c_pc = "empty"
    /\ Return
    /\ UNCHANGED << handlerVars, trackerVars, osVars, probeVars, slotHistory, pollHistory >>

\* copy_to_clipboard returns
CP_return ==
    /\ c_pc = "cp_done"
    /\ Return
    /\ UNCHANGED << handlerVars, trackerVars, osVars, probeVars, slotHistory, pollHistory >>

\* set_pending_paste, line 225
set_pending_paste ==
    /\ c_pc = "idle"
    /\ \E text \in TextSet : \E cb \in {None, text} :
          /\ SetPendingText(text)
          /\ NoteSet(text)
          /\ c_cb' = cb
    /\ c_pc' = "s_setC"
    /\ UNCHANGED << last_active_window, my_window_hwnds, tracking_started, stop_event,
                    pending_paste_callback, c_text, c_send, c_keys, trackerVars, osVars,
                    probeVars, pollHistory >>

\* set_pending_paste, line 226
S_setCallback ==
    /\ c_pc = "s_setC"
    /\ SetPendingCallback(c_cb)
    /\ Return
    /\ UNCHANGED << last_active_window, my_window_hwnds, tracking_started, stop_event,
                    pending_paste_text, trackerVars, osVars, probeVars,
                    slotHistory, pollHistory >>

\* A clear_pending_paste that also forgets the recorded window.
clear_pending_paste_forgets_window ==
    /\ c_pc = "idle"
    /\ pending_paste_text' = None
    /\ last_active_window' = NoHwnd
    /\ c_pc' = "k_clrC"
    /\ last_set' = None
    /\ UNCHANGED << my_window_hwnds, tracking_started, stop_event,
                    pending_paste_callback, c_text, c_send, c_cb, c_keys, c_overwrote,
                    trackerVars, osVars, probeVars, pollHistory >>

\* clear_pending_paste, line 231
clear_pending_paste ==
    /\ c_pc = "idle"
    /\ pending_paste_text' = None
    /\ c_pc' = "k_clrC"
    /\ last_set' = None
    /\ UNCHANGED << last_active_window, my_window_hwnds, tracking_started, stop_event,
                    pending_paste_callback, c_text, c_send, c_cb, c_keys, c_overwrote,
                    trackerVars, osVars, probeVars, pollHistory >>

\* clear_pending_paste, line 232
K_clearCallback ==
    /\ c_pc = "k_clrC"
    /\ pending_paste_callback' = None
    /\ Return
    /\ UNCHANGED << last_active_window, my_window_hwnds, tracking_started, stop_event,
                    pending_paste_text, trackerVars, osVars, probeVars,
                    slotHistory, pollHistory >>

\* restore_focus_to_last_window, lines 213-221: SetForegroundWindow either
\* brings the window to the foreground or raises.
RestoreFocus(restored) ==
    IF last_active_window # NoHwnd /\ IsWindow(last_active_window)
       THEN \/ restored /\ fg' = last_active_window
            \/ ~restored /\ fg' = fg
       ELSE ~restored /\ fg' = fg

\* paste_text, lines 262-273: an empty text returns at line 269; otherwise the
\* focus restore is attempted.
paste_text ==
    /\ c_pc = "idle"
    /\ \E text \in TextSet \cup {""} : \E should_send \in BOOLEAN :
          IF ~Truthy(text)
             THEN /\ c_pc' = "empty"
                  /\ c_text' = text
                  /\ UNCHANGED << fg, c_send, c_cb, c_keys, c_overwrote >>
             ELSE \E restored \in BOOLEAN :
                     /\ RestoreFocus(restored)
                     /\ c_pc' = IF restored THEN "p_input" ELSE "p_copy"
                     /\ c_text' = text
                     /\ c_send' = should_send
                     /\ UNCHANGED << c_cb, c_keys, c_overwrote >>
    /\ UNCHANGED << win, clipboard, handlerVars, trackerVars, probeVars,
                    slotHistory, pollHistory >>

\* paste_text, lines 279-285: is_valid_input = self.is_text_input_focused()
P_input ==
    /\ c_pc = "p_input"
    /\ \E is_valid_input \in {is_text_input_focused(ctl) : ctl \in Controls} :
          c_pc' = IF is_valid_input THEN "p_dcopy" ELSE "p_copy"
    /\ UNCHANGED << c_text, c_send, c_cb, c_keys, c_overwrote, handlerVars, trackerVars, osVars,
                    probeVars, slotHistory, pollHistory >>

\* paste_text, line 288: self.copy_to_clipboard(text)
P_copy ==
    /\ c_pc = "p_copy"
    /\ \E ok \in BOOLEAN : ClipboardWrite(c_text, ok)
    /\ c_pc' = "p_setT"
    /\ UNCHANGED << fg, win, c_text, c_send, c_cb, c_keys, c_overwrote, handlerVars, trackerVars,
                    probeVars, slotHistory, pollHistory >>

\* paste_text, line 290 -> set_pending_paste line 225
P_setText ==
    /\ c_pc = "p_setT"
    /\ SetPendingText(c_text)
    /\ NoteSet(c_text)
    /\ c_pc' = "p_setC"
    /\ UNCHANGED << last_active_window, my_window_hwnds, tracking_started, stop_event,
                    pending_paste_callback, c_text, c_send, c_cb, c_keys,
                    trackerVars, osVars, probeVars, pollHistory >>

\* paste_text, line 290 -> set_pending_paste line 226 (callback defaults to None)
P_setCallback ==
    /\ c_pc = "p_setC"
    /\ SetPendingCallback(None)
    /\ c_pc' = "p_deferred"
    /\ UNCHANGED << last_active_window, my_window_hwnds, tracking_started, stop_event,
                    pending_paste_text, c_text, c_send, c_cb, c_keys, c_overwrote,
                    trackerVars, osVars, probeVars, slotHistory, pollHistory >>

\* paste_text, line 291: return (the Deferred outcome)
P_returnDeferred ==
    /\ c_pc = "p_deferred"
    /\ Return
    /\ UNCHANGED << handlerVars, trackerVars, osVars, probeVars, slotHistory, pollHistory >>

\* An immediate delivery that empties the slot before it pastes.
P_pasteCopy_clears_slot ==
    /\ c_pc = "p_dcopy"
    /\ \E ok \in BOOLEAN :
          /\ ClipboardWrite(c_text, ok)
          /\ c_pc' = IF ok THEN "p_chord" ELSE "p_delivered"
    /\ pending_paste_text' = None
    /\ pending_paste_callback' = None
    /\ last_set' = None
    /\ UNCHANGED << fg, win, c_text, c_send, c_cb, c_keys, c_overwrote,
                    last_active_window, my_window_hwnds, tracking_started, stop_event,
                    trackerVars, probeVars, pollHistory >>

\* paste_text, lines 294-295 -> _do_paste line 248
P_pasteCopy ==
    /\ c_pc = "p_dcopy"
    /\ \E ok \in BOOLEAN :
          /\ ClipboardWrite(c_text, ok)
          /\ c_pc' = IF ok THEN "p_chord" ELSE "p_delivered"
    /\ UNCHANGED << fg, win, c_text, c_send, c_cb, c_keys, c_overwrote, handlerVars, trackerVars,
                    probeVars, slotHistory, pollHistory >>

\* _do_paste lines 250-255: Ctrl+V, or an exception swallowed at line 259
P_chord ==
    /\ c_pc = "p_chord"
    /\ \/ /\ c_keys' = Append(c_keys, "paste")
          /\ c_pc' = IF c_send THEN "p_enter" ELSE "p_delivered"
       \/ /\ c_keys' = c_keys
          /\ c_pc' = "p_delivered"
    /\ UNCHANGED << c_text, c_send, c_cb, c_overwrote, handlerVars, trackerVars, osVars,
                    probeVars, slotHistory, pollHistory >>

\* _do_paste lines 256-258: Enter, or an exception swallowed at line 259
P_enter ==
    /\ c_pc = "p_enter"
    /\ c_keys' \in {Append(c_keys, "enter"), c_keys}
    /\ c_pc' = "p_delivered"
    /\ UNCHANGED << c_text, c_send, c_cb, c_overwrote, handlerVars, trackerVars, osVars,
                    probeVars, slotHistory, pollHistory >>

\* paste_text returns after line 295 (the Delivered outcome)
P_returnDelivered ==
    /\ c_pc = "p_delivered"
    /\ Return
    /\ UNCHANGED << handlerVars, trackerVars, osVars, probeVars, slotHistory, pollHistory >>

Caller ==
    \/ start_focus_tracking \/ stop_focus_tracking \/ X_join
    \/ add_my_window_handle \/ copy_to_clipboard \/ CP_return \/ ReturnEmpty
    \/ set_pending_paste \/ S_setCallback
    \/ clear_pending_paste \/ K_clearCallback
    \/ paste_text \/ P_input \/ P_copy \/ P_setText \/ P_setCallback \/ P_returnDeferred
    \/ P_pasteCopy \/ P_chord \/ P_enter \/ P_returnDelivered

Next == Os \/ Tracker \/ Caller

Spec == Init /\ [][Next]_vars

\* The tracker thread is scheduled again and again while it lives: each of
\* its steps (a sleep that ends, an OS call that returns) is eventually taken.
FairSpec == Spec /\ WF_vars(Tracker)

\* The calls that start and stop the tracker and those that fill and empty
\* the slot it polls.
LifecycleCaller ==
    \/ start_focus_tracking \/ stop_focus_tracking \/ X_join
    \/ add_my_window_handle
    \/ set_pending_paste \/ S_setCallback
    \/ clear_pending_paste \/ K_clearCallback

NextLifecycle == Os \/ Tracker \/ LifecycleCaller

\* The tracker's life cycle: the thread is scheduled while it lives, and
\* Thread.join() returns once the thread has ended.
FairStopSpec ==
    Init /\ [][NextLifecycle]_vars /\ WF_vars(Tracker) /\ WF_vars(X_join)

\* ---------------------------------------------------------------- one probe
InitProbe ==
    /\ last_active_window = NoHwnd
    /\ my_window_hwnds = {}
    /\ tracking_started = FALSE
    /\ stop_event = FALSE
    /\ pending_paste_text = None
    /\ pending_paste_callback = None
    /\ t_pc = "dead"
    /\ t_hwnd = NoHwnd
    /\ t_text = None
    /\ t_keys = << >>
    /\ t_cb = None
    /\ t_alive = 0
    /\ c_pc = "idle"
    /\ c_text = None
    /\ c_send = FALSE
    /\ c_cb = None
    /\ c_keys = << >>
    /\ c_overwrote = FALSE
    /\ fg = NoHwnd
    /\ win = [h \in Handles |-> "visible"]
    /\ clipboard = ""
    /\ probe \in ProbeInputs
    /\ probe_result = "none"
    /\ last_set = None
    /\ t_late_reg = FALSE

\* The text-cleanup stage calls is_likely_insertion().
ProbeCall ==
    /\ probe_result = "none"
    /\ probe_result' = is_likely_insertion(probe)
    /\ UNCHANGED << probe, handlerVars, trackerVars, callerVars, osVars,
                    slotHistory, pollHistory >>

NextProbe == ProbeCall

SpecProbe == InitProbe /\ [][NextProbe]_vars

\* ================================================================ claims
\* The tracker is past line 193 of a poll iteration: it is delivering t_text.
Delivering == {"copy", "chord", "cbchk", "cbcall", "cbclr", "rec"}

\* ---------------------------------------------------------------- C1
\* C1: whenever paste_text ends Deferred, and in particular whenever
\* has_target_window() is false when it is called, the call has injected no
\* key and the clipboard holds exactly its text when it returns.
C1_DeferredLeavesTextOnClipboard ==
    [][ /\ (c_pc = "idle" /\ c_pc' \in {"p_input", "p_copy"} /\ ~has_target_window)
            => c_pc' = "p_copy"
        /\ c_pc' = "p_deferred" => (c_keys' = << >> /\ clipboard' = c_text') ]_vars

C4_RegisteredNeverRecorded ==
    [][ (t_pc = "rec" /\ t_pc' = "poll")
            => (last_active_window' \notin my_window_hwnds \/ t_late_reg) ]_vars

\* A poll iteration that began with every own window registered is about to
\* record the foreground window it saw.
C4_Witness ==
    /\ t_pc = "rec"
    /\ my_window_hwnds = OwnHandles
    /\ ~t_late_reg
    /\ t_hwnd \in ForeignHandles

\* ---------------------------------------------------------------- C5
\* C5: on the immediate path (target present, focus restored, control
\* text-capable) paste_text writes the clipboard, injects the paste chord,
\* then Enter only if should_send, and returns with clipboard = text.
C5_ImmediateDelivery ==
    c_pc = "p_delivered"
        => /\ c_keys = (IF c_send THEN << "paste", "enter" >> ELSE << "paste" >>)
           /\ clipboard = c_text

\* ---------------------------------------------------------------- C6
\* C6: a poll that finds a registered window in the foreground goes back to
\* sleep without touching last_active_window, so the recorded external
\* window stays recorded while only own windows are in the foreground.
C6_OwnForegroundKeepsLastWindow ==
    [][ (t_pc = "poll" /\ fg \in my_window_hwnds)
            => (t_pc' \in {"poll", "dead"} /\ last_active_window' = last_active_window) ]_vars

\* An external window is recorded and a registered own window has the
\* foreground while the tracker polls.
C6_Witness ==
    /\ t_pc = "poll"
    /\ ~stop_event
    /\ fg \in my_window_hwnds
    /\ last_active_window \in ForeignHandles
    /\ IsWindow(last_active_window)

\* ---------------------------------------------------------------- C7
\* The slot holds x as paste_text(x) returns Deferred.
C7_Queued(x) == c_pc = "p_deferred" /\ c_text = x /\ pending_paste_text = x

\* The tracker runs, the caller makes no call that touches the slot, and a
\* visible window of another application has the foreground.
C7_KeepsForeground ==
    /\ t_pc # "dead"
    /\ ~stop_event
    /\ c_pc \in {"p_deferred", "idle"}
    /\ fg \in ForeignHandles
    /\ fg \notin my_window_hwnds
    /\ IsWindowVisible(fg)

\* The tracker has injected the paste chord for x and the slot is empty.
C7_Pasted(x) ==
    /\ t_pc = "cbchk"
    /\ t_keys = << "paste" >>
    /\ t_text = x
    /\ pending_paste_text = None

\* C7: if paste_text(x) was Deferred and an external visible window then has
\* and keeps the foreground while the tracker runs, the tracker eventually
\* pastes x and the slot is empty.
C7_DeferredEventuallyPasted ==
    \A x \in TextSet :
        (C7_Queued(x) /\ C7_KeepsForeground) ~> (C7_Pasted(x) \/ ~C7_KeepsForeground)

\* ---------------------------------------------------------------- C8
\* The probe finds a character that is not whitespace after the caret: a
\* focused control with the TextPattern, a selection, a forward move of one
\* character, a text that is not empty and not all whitespace, every call
\* on the way having answered.
C8_InsertionCase(u) ==
    /\ u.focused
    /\ u.text
    /\ u.selections > 0
    /\ u.moved # 0
    /\ Len(u.peek) > 0
    /\ \E i \in 1..Len(u.peek) : u.peek[i] \notin Whitespace
    /\ u.raisesAt \notin {"GetFocusedControl", "GetPattern_Text", "GetSelection",
                          "Clone", "Move", "ExpandToEnclosingUnit", "GetText"}

\* C8: is_likely_insertion returns True exactly in the insertion case and
\* False in every other case.
C8_InsertionIffTextAfterCaret ==
    probe_result # "none"
        => /\ probe_result \in {"True", "False"}
           /\ (probe_result = "True") <=> C8_InsertionCase(probe)

\* A probe that read a space and a letter after the caret answered True.
C8_Witness ==
    /\ probe_result = "True"
    /\ probe.peek = << " ", "x" >>

\* ---------------------------------------------------------------- C9
\* C9: when a call of the probe raises (or times out), is_likely_insertion
\* returns False and lets no exception through.
C9_FailedProbeIsFalse ==
    (probe_result # "none" /\ check_caret_try(probe) = "raised")
        => probe_result = "False"

\* A probe whose GetText raised has returned False.
C9_Witness ==
    /\ probe_result = "False"
    /\ probe.raisesAt = "GetText"
    /\ check_caret_try(probe) = "raised"

\* ---------------------------------------------------------------- C10
\* C10: has_target_window() is true exactly when a window is recorded and
\* the window table still has it open: false while nothing was recorded,
\* false once the recorded window is closed.
C10_HasTargetIffRecordedAndOpen ==
    has_target_window
        <=> (last_active_window \in Handles /\ win[last_active_window] # "closed")

\* The recorded window was closed.
C10_Witness ==
    /\ last_active_window \in ForeignHandles
    /\ win[last_active_window] = "closed"
    /\ ~has_target_window

\* ---------------------------------------------------------------- C11
\* C11: when the focus restore fails, or succeeds onto a control that is not
\* text-capable, paste_text injects no key and returns Deferred with the
\* slot holding (text, no callback).  The slot may be empty instead when
\* the tracker has already taken that very text; it is never empty while
\* the tracker is delivering a different, older text.
C11_DeferredQueuesText ==
    c_pc = "p_deferred"
        => /\ c_keys = << >>
           /\ pending_paste_callback = None
           /\ \/ pending_paste_text = c_text
              \/ ~(t_pc \in Delivering /\ Truthy(t_text) /\ t_text # c_text)

\* ---------------------------------------------------------------- C12
\* C12: no step of the caller thread (set_pending_paste, clear_pending_paste
\* or any other call) invokes a callback, and the callback the tracker
\* invokes is the one the slot holds at that moment, hence never one that a
\* set_pending_paste has replaced or a clear_pending_paste has removed.
C12_ReplacedCallbackNeverInvoked ==
    [][ /\ (t_pc = "cbcall" /\ t_pc' = "cbclr" /\ t_cb' # None)
              => t_cb' = pending_paste_callback
        /\ c_pc' # c_pc => t_cb' = t_cb ]_vars

\* While the tracker was pasting a text, a set_pending_paste replaced the
\* callback queued with it and returned; the tracker has invoked a callback,
\* and not the replaced one.
C12_Witness ==
    /\ t_pc = "cbclr"
    /\ c_pc = "idle"
    /\ t_cb # None
    /\ t_cb # t_text

\* ---------------------------------------------------------------- C13
\* C13: at most one thread runs _track_focus_loop; a step of the idle
\* caller made while tracking_started is set spawns no thread; a stop made
\* while no thread lives ends none and touches neither the tracker's
\* locals, the slot, the recorded window nor the OS.
C13_StartStopIdempotent ==
    [][ /\ t_alive' <= 1
        /\ (tracking_started /\ c_pc = "idle") => t_alive' <= t_alive
        /\ (t_alive = 0 /\ \/ (c_pc = "idle" /\ c_pc' = "x_join")
                            \/ (c_pc = "x_join" /\ c_pc' = "idle"))
              => UNCHANGED << trackerVars, last_active_window, pending_paste_text,
                              pending_paste_callback, osVars >> ]_vars

\* stop_focus_tracking was called on a tracker that had recorded a window;
\* its thread has ended and join() is about to return.
C13_Witness ==
    /\ c_pc = "x_join"
    /\ tracking_started
    /\ t_pc = "dead"
    /\ t_alive = 0
    /\ last_active_window \in ForeignHandles

\* ---------------------------------------------------------------- C14
\* C14 as stated: copy_to_clipboard with a non-empty text sets the
\* clipboard to that text.
C14_CopyOnlySetsClipboard ==
    [][ (c_pc = "idle" /\ c_pc' = "cp_done") => clipboard' = c_text' ]_vars

\* C14, amended: copy_to_clipboard with a non-empty text sets the clipboard
\* to that text, or leaves it as it was when the clipboard write raises; it
\* injects no key, does not change the foreground window and leaves the
\* slot and last_active_window unchanged.
C14_CopyOnlyFrame ==
    [][ (c_pc = "idle" /\ c_pc' = "cp_done")
            => /\ clipboard' \in {c_text', clipboard}
               /\ c_keys' = << >>
               /\ UNCHANGED << fg, win, t_keys, pending_paste_text,
                               pending_paste_callback, last_active_window >> ]_vars

\* copy_to_clipboard has put its text on the clipboard while another text
\* waits in the slot and a window is recorded.
C14_Witness ==
    /\ c_pc = "cp_done"
    /\ clipboard = c_text
    /\ Truthy(pending_paste_text)
    /\ pending_paste_text # c_text
    /\ last_active_window \in ForeignHandles

\* ---------------------------------------------------------------- C15
\* C15: the tracker thread ends only after stop_focus_tracking has set the
\* stop flag; an OS query that raises during a poll iteration does not end
\* it.
C15_ThreadEndsOnlyOnStop ==
    [][ (t_pc # "dead" /\ t_pc' = "dead") => stop_event ]_vars

\* ---------------------------------------------------------------- C16
\* C16: the tracker starts the delivery of a queued text only in a poll
\* iteration whose foreground window differs from the recorded
\* last_active_window.
C16_DeliversOnlyOnTransition ==
    [][ (t_pc = "clr" /\ t_pc' = "copy") => t_hwnd # last_active_window ]_vars

\* ---------------------------------------------------------------- C17
\* C17: the callback the tracker invokes was queued by the same
\* set_pending_paste call as the text it has just pasted.
C17_CallbackBelongsToTakenText ==
    [][ (t_pc = "cbcall" /\ t_pc' = "cbclr" /\ t_cb' # None) => t_cb' = t_text ]_vars

\* ---------------------------------------------------------------- C18
\* C18: a set_pending_paste that has returned is not lost: when the tracker
\* empties the slot, the text it removes is the text it goes on to deliver.
C18_TakeRemovesWhatItDelivers ==
    [][ (t_pc = "clr" /\ t_pc' = "copy" /\ c_pc = "idle" /\ Truthy(pending_paste_text))
            => pending_paste_text = t_text ]_vars

\* ---------------------------------------------------------------- C19
\* C19: once stop_focus_tracking has set the stop flag, the tracker thread
\* ends and the call returns with tracking switched off.
C19_StopEventuallyReturns ==
    (c_pc = "x_join") ~> (c_pc = "idle" /\ t_pc = "dead" /\ ~tracking_started)

\* stop_focus_tracking waits for a tracker that is in the middle of a
\* delivery.
C19_Witness ==
    /\ c_pc = "x_join"
    /\ stop_event
    /\ t_pc = "chord"

\* ---------------------------------------------------------------- C20
\* C20: every step that changes last_active_window is line 203 of the
\* tracker's loop; no call of the caller thread writes it.
C20_OnlyTrackerWritesLastWindow ==
    [][ last_active_window' # last_active_window
            => (t_pc = "rec" /\ t_pc' = "poll") ]_vars

\* paste_text has restored the focus to the recorded window and pasted; the
\* window is still recorded.
C20_Witness ==
    /\ c_pc = "p_delivered"
    /\ c_keys = << "paste" >>
    /\ last_active_window \in ForeignHandles
    /\ fg = last_active_window

\* ---------------------------------------------------------------- C21
\* C21: when the clipboard write or the key injection of an automatic
\* delivery fails, the queued text is still in the slot.  Stated for a
\* delivery whose entry no call has cleared or replaced meanwhile: the
\* caller is idle and the callback queued with the text is still stored.
C21_FailedDeliveryKeepsText ==
    [][ (/\ t_pc \in {"copy", "chord"}
         /\ t_pc' = "cbchk"
         /\ t_keys' = << >>
         /\ c_pc = "idle"
         /\ pending_paste_callback = t_text)
            => pending_paste_text' = t_text ]_vars

\* ---------------------------------------------------------------- C22
\* C22: a poll whose visibility test (line 191) finds the foreground window
\* not visible does not go on to record it as last_active_window.
C22_HiddenWindowNotRecorded ==
    [][ (t_pc = "vis" /\ t_pc' = "rec") => IsWindowVisible(t_hwnd) ]_vars

\* ---------------------------------------------------------------- C23
\* C23: in every reachable state last_active_window is not a member of the
\* exclusion set, whether a window is registered before or after it first
\* had the foreground.
C23_LastWindowNeverRegistered ==
    last_active_window \notin my_window_hwnds

\* ---------------------------------------------------------------- C24
\* C24: at the moment a paste chord is injected, by the tracker or by
\* paste_text, the clipboard holds the text of the delivery that injects it.
C24_ChordPastesOwnText ==
    [][ /\ (t_pc = "chord" /\ t_keys' # t_keys) => clipboard = t_text
        /\ (c_pc = "p_chord" /\ c_keys' # c_keys) => clipboard = c_text ]_vars

\* ---------------------------------------------------------------- C25
\* C25: when the tracker injects the paste chord of an automatic delivery
\* that a poll of an external window began, the foreground window is not
\* one of the application's registered windows.
C25_AutoPasteNotIntoOwnWindow ==
    [][ (t_pc = "chord" /\ t_keys' # t_keys /\ t_hwnd \notin my_window_hwnds)
            => fg \notin my_window_hwnds ]_vars

\* ---------------------------------------------------------------- C26
\* The steps of paste_text on its immediate path, from the answer of the
\* input check to the return after _do_paste.
ImmediatePath == {"p_dcopy", "p_chord", "p_enter", "p_delivered"}

C27_EnterOnlyOnImmediateSend ==
    /\ t_keys \in {<< >>, << "paste" >>}
    /\ c_keys \in {<< >>, << "paste" >>, << "paste", "enter" >>}
    /\ c_keys = << "paste", "enter" >> => (c_send /\ c_pc = "p_delivered")

\* The tracker has pasted a text that paste_text(text, should_send = True)
\* has just queued, and has pressed no Enter.
C27_Witness ==
    /\ c_pc = "p_deferred"
    /\ c_send
    /\ t_pc = "cbchk"
    /\ t_text = c_text
    /\ t_keys = << "paste" >>

\* ---------------------------------------------------------------- C28
\* C28: paste_text and copy_to_clipboard called with an empty text return
\* at once: clipboard, slot, foreground window and last_active_window are
\* left as they were and no key is injected.
C28_EmptyTextIsNoOp ==
    [][ /\ (c_pc = "idle" /\ c_pc' # "idle" /\ c_text' = "") => c_pc' = "empty"
        /\ (c_pc' # c_pc /\ (c_pc = "empty" \/ c_pc' = "empty"))
              => /\ UNCHANGED << clipboard, fg, win, pending_paste_text,
                                 pending_paste_callback, last_active_window, t_keys >>
                 /\ c_keys' = << >> ]_vars

\* A call with an empty text returns while a window is recorded and open, a
\* text is queued and the clipboard holds something.
C28_Witness ==
    /\ c_pc = "empty"
    /\ c_text = ""
    /\ has_target_window
    /\ Truthy(pending_paste_text)
    /\ clipboard # ""

\* ---------------------------------------------------------------- C29
\* C29: no failure of an automatic delivery (the clipboard write, the key
\* injection, the callback) ends the tracker thread: from line 193 on the
\* iteration runs to its end, the stored callback is cleared after the
\* call and last_active_window is written with the polled handle.
C29_DeliveryFailureKeepsLoop ==
    [][ /\ t_pc \in Delivering => t_pc' # "dead"
        /\ (t_pc = "cbcall" /\ t_pc' # t_pc) => t_pc' = "cbclr"
        /\ (t_pc = "cbclr" /\ t_pc' # t_pc)
              => (pending_paste_callback' = None /\ t_pc' = "rec")
        /\ (t_pc = "rec" /\ t_pc' # t_pc)
              => (last_active_window' = t_hwnd /\ t_pc' = "poll") ]_vars

\* An automatic delivery has failed (no key was injected); the callback was
\* called and cleared and the iteration is about to record the window.
C29_Witness ==
    /\ t_pc = "rec"
    /\ Truthy(t_text)
    /\ t_keys = << >>
    /\ t_cb # None
    /\ pending_paste_callback = None
    /\ last_active_window # t_hwnd

\* ---------------------------------------------------------------- C30
\* C30: from the return of stop_focus_tracking until the next
\* start_focus_tracking no thread runs the loop, and every step that is not
\* a call of the caller leaves last_active_window, the injected keys, the
\* invoked callback and the slot as they were.
C30_StoppedTrackerIsSilent ==
    [][ ~tracking_started
            => /\ t_pc = "dead"
               /\ c_pc' = c_pc
                     => UNCHANGED << last_active_window, t_keys, t_cb,
                                     pending_paste_text, pending_paste_callback >> ]_vars

\* stop_focus_tracking has returned; a text is queued and a visible window
\* of another application, not the recorded one, has the foreground.
C30_Witness ==
    /\ ~tracking_started
    /\ stop_event
    /\ c_pc = "idle"
    /\ Truthy(pending_paste_text)
    /\ fg \in ForeignHandles
    /\ IsWindowVisible(fg)
    /\ last_active_window # fg

====
